---- MODULE Spec2Model ----
(***************************************************************************)
(* Model of the quiz generation pipeline of scripts/generate_quiz_data.py: *)
(* the line parser parse_trivia_file, the classifier                       *)
(* determine_major_category, the phrase ranking of extract_key_phrases,    *)
(* the quiz assembly of create_quiz and the batching loop of main.         *)
(*                                                                         *)
(* Python values are encoded as follows.  A str is a TLA+ string.  A list  *)
(* is a sequence.  A dict with fixed keys is a record.  An optional value  *)
(* (None or a value v) is the sequence <<>> or <<v>>.                      *)
(***************************************************************************)
EXTENDS Integers, Sequences, FiniteSets, TLC

VARIABLES
    pc,               \* position of the running function
    rng,              \* state of the random source, or None before its first use
    hashseed,         \* the str hash seed of the process, or None before its first use
    lines,            \* parse_trivia_file: the lines read from the file
    idx,              \* parse_trivia_file: index of the line the loop is at
    questions,        \* parse_trivia_file: completed records
    current_question, \* parse_trivia_file: the active record, or None
    valid_questions,  \* parse_trivia_file: the returned list
    cat_tags,         \* determine_major_category: argument tags
    cat_question,     \* determine_major_category: argument question
    cat_result,       \* determine_major_category: returned category, or None
    key_phrases,      \* extract_key_phrases: the merged phrase list
    common_phrases,   \* extract_key_phrases: the returned list
    quiz_input,       \* create_quiz: argument questions
    quiz,             \* create_quiz: the returned quiz, or None
    files,            \* main: the entries of the categories directory
    file_idx,         \* main: index of the entry the first loop is at
    all_questions,    \* main: the master record list
    window,           \* main: loop variable i of the second loop
    outputs,          \* main: the documents written, in order
    src,              \* split_dump: the lines of the source dump
    src_idx,          \* split_dump: index of the line the loop is at
    current_file,     \* split_dump: name of the open section file, or None
    current_table,    \* split_dump: table of the open section, or None
    output_dir        \* split_dump: the files of the output directory

parseVars == <<lines, idx, questions, current_question, valid_questions>>
catVars == <<cat_tags, cat_question, cat_result>>
phraseVars == <<key_phrases, common_phrases>>
quizVars == <<quiz_input, quiz>>
mainVars == <<files, file_idx, all_questions, window, outputs>>

splitVars == <<src, src_idx, current_file, current_table, output_dir>>

vars == <<pc, rng, hashseed, parseVars, catVars, phraseVars, quizVars, mainVars, splitVars>>

----------------------------------------------------------------------------
(* Python built-ins used by the source. *)

None == <<>>

Some(v) == <<v>>

\* Truth value of an optional str: None and '' are false.
Truthy(o) == o # None /\ o[1] # ""

\* str(x) inside an f-string, for an optional str.
Format(o) == IF o = None THEN "None" ELSE o[1]

Digit(d) == <<"0", "1", "2", "3", "4", "5", "6", "7", "8", "9">>[d + 1]

RECURSIVE ToStr(_)
\* str(n) for a natural number n.
ToStr(n) == IF n < 10 THEN Digit(n) ELSE ToStr(n \div 10) \o Digit(n % 10)

IsSpace(c) == c \in {" ", "\t", "\n", "\r"}

\* s[n:]
Drop(s, n) == IF n >= Len(s) THEN "" ELSE SubSeq(s, n + 1, Len(s))

\* s[:n]
Take(s, n) == IF n >= Len(s) THEN s ELSE IF n <= 0 THEN "" ELSE SubSeq(s, 1, n)

RECURSIVE LStrip(_)
LStrip(s) ==
    IF Len(s) > 0 /\ IsSpace(Take(s, 1)) THEN LStrip(Drop(s, 1)) ELSE s

RECURSIVE RStrip(_)
RStrip(s) ==
    IF Len(s) > 0 /\ IsSpace(Drop(s, Len(s) - 1))
    THEN RStrip(Take(s, Len(s) - 1))
    ELSE s

\* s.strip()
Strip(s) == RStrip(LStrip(s))

\* s.startswith(p)
StartsWith(s, p) == Len(s) >= Len(p) /\ Take(s, Len(p)) = p

\* s.startswith(('A', 'B', 'C', 'D'))
StartsWithOptionLetter(s) == \E p \in {"A", "B", "C", "D"} : StartsWith(s, p)

UpperLetters == "ABCDEFGHIJKLMNOPQRSTUVWXYZ"

LowerLetters == "abcdefghijklmnopqrstuvwxyz"

CharAt(s, i) == SubSeq(s, i, i)

\* Position of the one-character string c in letters.
LetterIndex(c, letters) == CHOOSE i \in 1..Len(letters) : CharAt(letters, i) = c

Letters(letters) == {CharAt(letters, i) : i \in 1..Len(letters)}

\* The lower case letter of each upper case letter.
ToLower == [c \in Letters(UpperLetters) |-> CharAt(LowerLetters, LetterIndex(c, UpperLetters))]

\* The upper case letter of each lower case letter.
ToUpper == [c \in Letters(LowerLetters) |-> CharAt(UpperLetters, LetterIndex(c, LowerLetters))]

LowerChar(c) == IF c \in DOMAIN ToLower THEN ToLower[c] ELSE c

UpperChar(c) == IF c \in DOMAIN ToUpper THEN ToUpper[c] ELSE c

RECURSIVE Lower(_)
\* s.lower()
Lower(s) ==
    IF Len(s) = 0 THEN ""
    ELSE IF Len(s) = 1 THEN LowerChar(s)
    ELSE LET half == Len(s) \div 2
         IN  Lower(Take(s, half)) \o Lower(Drop(s, half))

\* s.capitalize()
Capitalize(s) == IF s = "" THEN "" ELSE UpperChar(Take(s, 1)) \o Lower(Drop(s, 1))

\* kw in text, for a non-empty kw
Contains(text, kw) ==
    \E i \in 1..(Len(text) - Len(kw) + 1) : SubSeq(text, i, i + Len(kw) - 1) = kw

RECURSIVE Join(_, _)
\* sep.join(parts)
Join(parts, sep) ==
    IF parts = <<>> THEN ""
    ELSE IF Len(parts) = 1 THEN parts[1]
    ELSE LET half == Len(parts) \div 2
         IN  Join(SubSeq(parts, 1, half), sep) \o sep
                 \o Join(SubSeq(parts, half + 1, Len(parts)), sep)

RECURSIVE SplitFrom(_, _)
\* The words of s, after the word cur that is being read.
SplitFrom(s, cur) ==
    IF s = "" THEN (IF cur = "" THEN <<>> ELSE <<cur>>)
    ELSE IF IsSpace(Take(s, 1))
         THEN (IF cur = "" THEN <<>> ELSE <<cur>>) \o SplitFrom(Drop(s, 1), "")
         ELSE SplitFrom(Drop(s, 1), cur \o Take(s, 1))

\* s.split()
Split(s) == SplitFrom(s, "")

Min(a, b) == IF a <= b THEN a ELSE b

\* xs[:n] of a list
Prefix(xs, n) == SubSeq(xs, 1, Min(n, Len(xs)))

Range(xs) == {xs[i] : i \in 1..Len(xs)}

RECURSIVE Concat(_)
\* The lists of a list of lists, extended one after the other.
Concat(xss) ==
    IF xss = <<>> THEN <<>>
    ELSE IF Len(xss) = 1 THEN xss[1]
    ELSE LET half == Len(xss) \div 2
         IN  Concat(SubSeq(xss, 1, half)) \o Concat(SubSeq(xss, half + 1, Len(xss)))

RECURSIVE Dedup(_)
\* The distinct elements of xs, each at its first position.
Dedup(xs) ==
    IF Len(xs) <= 1 THEN xs
    ELSE LET half  == Len(xs) \div 2
             front == Dedup(SubSeq(xs, 1, half))
             back  == Dedup(SubSeq(xs, half + 1, Len(xs)))
         IN  front \o SelectSeq(back, LAMBDA x : x \notin Range(front))

Reverse(xs) == [i \in 1..Len(xs) |-> xs[Len(xs) + 1 - i]]

Rotate(xs, k) == [i \in 1..Len(xs) |-> xs[((i - 1 + k) % Len(xs)) + 1]]

\* Number of seeds the random source and the str hash start from.
MaxSeed == 1

\* The seeds a source that has not been used yet can hold.
Seeds(source) == IF source = None THEN 0..MaxSeed ELSE {source[1]}

\* The source after one use.
NextSeed(seed) == Some((seed + 1) % (MaxSeed + 1))

\* An arrangement of xs decided by seed: a rotation, reversed for odd seeds.
Arrange(xs, seed) ==
    IF xs = <<>> THEN <<>>
    ELSE IF seed % 2 = 0 THEN Rotate(xs, seed \div 2)
    ELSE Reverse(Rotate(xs, seed \div 2))

\* random.sample(population, k)
sample(population, k, seed) == Prefix(Arrange(population, seed), k)

\* list(set(xs)): the iteration order of a set of str follows the str hash.
list_set(xs, hash) == Arrange(Dedup(xs), hash)


----------------------------------------------------------------------------
(* parse_trivia_file *)

\* Number of lines of a file, not counting a leading #Q line.
MaxLines == 5

\* The lines a file is made of.
LinePool == {"#Q q", "^ x", "^ y", "A x", "B y", " ", "zz"}

RECURSIVE SeqsUpTo(_, _)
SeqsUpTo(S, n) ==
    IF n = 0 THEN {<<>>}
    ELSE LET shorter == SeqsUpTo(S, n - 1)
         IN  shorter \cup {Append(s, e) : s \in {t \in shorter : Len(t) = n - 1}, e \in S}

\* The files read: up to MaxLines lines, alone or after a line that opens a
\* record.
Files ==
    LET tails == SeqsUpTo(LinePool, MaxLines)
    IN  tails \cup {<<"#Q q">> \o t : t \in tails}

\* The dict a #Q line creates.
NewQuestion(line) ==
    [question      |-> Strip(Drop(line, 3)),
     options       |-> <<>>,
     correctAnswer |-> None,
     correct_text  |-> None]

\* Faulty variant: the first matching option stays the correct answer.
WithOption_FirstMatch(q, line) ==
    LET option_text == Strip(Drop(line, 2))
        option_id   == ToStr(Len(q.options))
        appended    == [q EXCEPT !.options =
                           Append(@, [id |-> option_id, text |-> option_text])]
    IN  IF Truthy(q.correct_text) /\ option_text = q.correct_text[1]
           /\ q.correctAnswer = None
        THEN [appended EXCEPT !.correctAnswer = Some(option_id)]
        ELSE appended

\* The body of the option branch, applied to the active record.
WithOption(q, line) ==
    LET option_text == Strip(Drop(line, 2))
        option_id   == ToStr(Len(q.options))
        appended    == [q EXCEPT !.options =
                           Append(@, [id |-> option_id, text |-> option_text])]
    IN  IF Truthy(q.correct_text) /\ option_text = q.correct_text[1]
        THEN [appended EXCEPT !.correctAnswer = Some(option_id)]
        ELSE appended

\* current_question and current_question.get('options')
HasOptions(cq) == cq # None /\ cq[1].options # <<>>

\* Faulty variant: a ^ line opens a record when none is active.
Feed_AnswerOpensRecord(st, raw) ==
    LET line == Strip(raw)
        cq   == st.current_question
    IN  IF line = "" THEN st
        ELSE IF StartsWith(line, "#Q")
        THEN [questions        |-> IF HasOptions(cq)
                                   THEN Append(st.questions, cq[1])
                                   ELSE st.questions,
              current_question |-> Some(NewQuestion(line))]
        ELSE IF StartsWith(line, "^")
        THEN [st EXCEPT !.current_question =
                 Some([(IF cq # None THEN cq[1] ELSE NewQuestion(""))
                           EXCEPT !.correct_text = Some(Strip(Drop(line, 2)))])]
        ELSE IF StartsWithOptionLetter(line) /\ cq # None
        THEN [st EXCEPT !.current_question = Some(WithOption(cq[1], line))]
        ELSE st

\* One iteration of the loop over the lines, on the pair of questions and
\* current_question.
Feed(st, raw) ==
    LET line == Strip(raw)
        cq   == st.current_question
    IN  IF line = "" THEN st
        ELSE IF StartsWith(line, "#Q")
        THEN [questions        |-> IF HasOptions(cq)
                                   THEN Append(st.questions, cq[1])
                                   ELSE st.questions,
              current_question |-> Some(NewQuestion(line))]
        ELSE IF StartsWith(line, "^") /\ cq # None
        THEN [st EXCEPT !.current_question =
                 Some([cq[1] EXCEPT !.correct_text = Some(Strip(Drop(line, 2)))])]
        ELSE IF StartsWithOptionLetter(line) /\ cq # None
        THEN [st EXCEPT !.current_question = Some(WithOption(cq[1], line))]
        ELSE st

RECURSIVE ParseLoop(_, _, _, _)
\* The loop over lines lo..hi, from state st.  The lines are fed in order; the
\* range is halved, and the state after the first half is computed before the
\* second half starts, so that long files are evaluated without deep nesting.
ParseLoop(ls, lo, hi, st) ==
    IF lo > hi THEN st
    ELSE IF lo = hi THEN Feed(st, ls[lo])
    ELSE LET mid   == (lo + hi) \div 2
             first == ParseLoop(ls, lo, mid, st)
         IN  IF DOMAIN first = DOMAIN st
             THEN ParseLoop(ls, mid + 1, hi, first)
             ELSE first

\* Faulty variant: the last record gets no default answer.
LastQuestion_NoDefault(q) == q

\* The last record as the code after the loop leaves it.
LastQuestion(q) ==
    IF q.correctAnswer = None /\ q.options # <<>>
    THEN [q EXCEPT !.correctAnswer = Some("0"),
                   !.correct_text = Some(q.options[1].text)]
    ELSE q

\* Faulty variant: the final filter is missing.
ValidQuestions_NoFilter(qs) == qs

\* [q for q in questions if q['correctAnswer'] is not None]
ValidQuestions(qs) == SelectSeq(qs, LAMBDA q : q.correctAnswer # None)

\* The questions list after the last record is flushed.
FlushLast(qs, cq) ==
    IF HasOptions(cq) THEN Append(qs, LastQuestion(cq[1])) ELSE qs

\* The whole function, on the lines of the file.
parse_trivia_file(ls) ==
    LET st == ParseLoop(ls, 1, Len(ls), [questions |-> <<>>, current_question |-> None])
    IN  ValidQuestions(FlushLast(st.questions, st.current_question))

----------------------------------------------------------------------------
(* determine_major_category *)

MAJOR_CATEGORIES ==
    << [name |-> "Science",
        keywords |-> <<"science", "technology", "physics", "chemistry", "biology", "mathematics">>],
       [name |-> "Entertainment",
        keywords |-> <<"movies", "television", "music", "video-games", "celebrities">>],
       [name |-> "History",
        keywords |-> <<"history", "historical", "ancient", "medieval", "modern">>],
       [name |-> "Geography",
        keywords |-> <<"geography", "world", "countries", "cities", "places">>],
       [name |-> "Sports",
        keywords |-> <<"sports", "athletics", "games", "olympics", "players">>],
       [name |-> "Literature",
        keywords |-> <<"literature", "books", "authors", "poetry", "novels">>],
       [name |-> "Knowledge",
        keywords |-> <<"general", "knowledge", "facts", "information", "trivia">>],
       [name |-> "Nature",
        keywords |-> <<"animals", "plants", "environment", "biology", "earth">>] >>

\* keyword.lower() of every keyword of the table.
LowerKeywords ==
    [c \in 1..Len(MAJOR_CATEGORIES) |->
        [k \in 1..Len(MAJOR_CATEGORIES[c].keywords) |-> Lower(MAJOR_CATEGORIES[c].keywords[k])]]

\* The number of keywords of category c that occur in text.
KeywordMatches(c, text) ==
    Cardinality({k \in 1..Len(LowerKeywords[c]) : Contains(text, LowerKeywords[c][k])})

\* scores.items(): the categories with at least one match, in table order.
ScoreItems(text) ==
    LET all == [c \in 1..Len(MAJOR_CATEGORIES) |->
                   [category |-> MAJOR_CATEGORIES[c].name,
                    score    |-> KeywordMatches(c, text)]]
    IN  SelectSeq(all, LAMBDA item : item.score > 0)

\* Faulty variant: the last item with the largest score.
MaxByScore_Last(items) ==
    LET best == CHOOSE i \in 1..Len(items) :
                    /\ \A j \in 1..Len(items) : items[j].score <= items[i].score
                    /\ \A j \in (i + 1)..Len(items) : items[j].score < items[i].score
    IN  items[best]

\* max(items, key=lambda x: x[1]): the first item with the largest score.
MaxByScore(items) ==
    LET best == CHOOSE i \in 1..Len(items) :
                    /\ \A j \in 1..Len(items) : items[j].score <= items[i].score
                    /\ \A j \in 1..(i - 1) : items[j].score < items[i].score
    IN  items[best]

\* ' '.join([question.lower()] + [t.lower() for t in tags])
ClassifiedText(tags, question) ==
    Join(<<Lower(question)>> \o [t \in 1..Len(tags) |-> Lower(tags[t])], " ")

determine_major_category(tags, question) ==
    LET scores == ScoreItems(ClassifiedText(tags, question))
    IN  IF scores # <<>> THEN MaxByScore(scores).category ELSE "Knowledge"

----------------------------------------------------------------------------
(* determine_tags *)

\* nouns stands for the words NLTK labels NN*, in order.
determine_tags(file_name, nouns, hash) ==
    list_set(<<file_name>> \o Prefix(nouns, 3), hash)

----------------------------------------------------------------------------
(* extract_key_phrases *)

RECURSIVE Counter(_)
\* Counter(xs).items(): each distinct element with its count, first seen first.
Counter(xs) ==
    IF xs = <<>> THEN <<>>
    ELSE LET front == Counter(SubSeq(xs, 1, Len(xs) - 1))
             last  == xs[Len(xs)]
         IN  IF \E i \in 1..Len(front) : front[i].phrase = last
             THEN [i \in 1..Len(front) |->
                      IF front[i].phrase = last
                      THEN [front[i] EXCEPT !.count = @ + 1]
                      ELSE front[i]]
             ELSE Append(front, [phrase |-> last, count |-> 1])

RemoveAt(xs, i) == SubSeq(xs, 1, i - 1) \o SubSeq(xs, i + 1, Len(xs))

RECURSIVE most_common(_, _)
\* Counter.most_common(n): the n largest counts, equal counts first seen first.
most_common(items, n) ==
    IF n = 0 \/ items = <<>> THEN <<>>
    ELSE LET best == CHOOSE i \in 1..Len(items) :
                         /\ \A j \in 1..Len(items) : items[j].count <= items[i].count
                         /\ \A j \in 1..(i - 1) : items[j].count < items[i].count
         IN  <<items[best]>> \o most_common(RemoveAt(items, best), n - 1)

\* The comprehension that selects the common phrases.
CommonPhrases(merged) ==
    LET top  == most_common(Counter(merged), 5)
        kept == SelectSeq(top, LAMBDA item : item.count > 1 /\ Len(Split(item.phrase)) <= 3)
    IN  [i \in 1..Len(kept) |-> kept[i].phrase]

\* nlp_phrases stands for what the spaCy pipeline contributes: the noun
\* chunks, the named entities and the nouns, in that order.
extract_key_phrases(nlp_phrases, tags) ==
    LET long == SelectSeq(tags, LAMBDA tag : Len(tag) > 2)
    IN  CommonPhrases(nlp_phrases \o [i \in 1..Len(long) |-> Lower(long[i])])

----------------------------------------------------------------------------
(* generate_title_and_description *)

CapitalizeWords(phrase) ==
    LET words == Split(phrase)
    IN  Join([i \in 1..Len(words) |-> Capitalize(words[i])], " ")

Title(phrases, major_category) ==
    IF phrases # <<>>
    THEN LET selected  == Prefix(phrases, 2)
             formatted == [i \in 1..Len(selected) |-> CapitalizeWords(selected[i])]
             topic     == IF Len(formatted) > 1
                          THEN formatted[1] \o " and " \o formatted[2]
                          ELSE formatted[1]
         IN  major_category \o " Quiz: " \o topic
    ELSE major_category \o " Quiz Challenge"

DifficultyLevels(n) ==
    [easy   |-> n \div 3,
     medium |-> n \div 3,
     hard   |-> n - (2 * (n \div 3))]

Description(n, major_category, tags) ==
    LET levels     == DifficultyLevels(n)
        tag_phrase == IF Len(tags) > 1 THEN Join(Prefix(tags, 3), ", ")
                      ELSE IF tags # <<>> THEN tags[1] ELSE ""
    IN  "Test your " \o Lower(major_category)
            \o " knowledge with this comprehensive quiz! "
            \o "Features " \o ToStr(n) \o " questions covering " \o tag_phrase \o ". "
            \o "Includes " \o ToStr(levels.easy) \o " easy, "
            \o ToStr(levels.medium) \o " medium, "
            \o "and " \o ToStr(levels.hard) \o " challenging questions. "
            \o "Can you achieve a passing score of 70%?"

generate_title_and_description(n, nlp_phrases, major_category, tags) ==
    [title       |-> Title(extract_key_phrases(nlp_phrases, tags), major_category),
     description |-> Description(n, major_category, tags)]

----------------------------------------------------------------------------
(* create_quiz *)

\* q.get('tags', [])
TagsOf(q) == IF "tags" \in DOMAIN q THEN q.tags ELSE <<>>

\* The tags of the quiz: the major category, then up to 5 of the set of tags.
QuizTags(major_category, all_tags, hash) ==
    <<major_category>> \o Prefix(list_set(all_tags, hash), 5)

\* The text of the explanation of one question.
Explanation(q) == "The correct answer is: " \o Format(q.correct_text)

QuizItem(q, i) ==
    [id            |-> "q" \o ToStr(i),
     type          |-> "MULTIPLE_CHOICE",
     question      |-> q.question,
     options       |-> q.options,
     correctAnswer |-> q.correctAnswer,
     points        |-> 10,
     explanation   |-> Explanation(q)]

Settings ==
    [randomizeQuestions |-> TRUE,
     randomizeOptions   |-> TRUE,
     showExplanation    |-> TRUE,
     showCorrectAnswer  |-> TRUE,
     passingScore       |-> 70,
     allowNavigation    |-> TRUE,
     showProgressBar    |-> TRUE,
     showTimeRemaining  |-> TRUE]

\* Faulty variant: hard is computed like easy and medium.
Metadata_HardIsThird(n, tags) ==
    [totalPoints            |-> n * 10,
     estimatedDuration      |-> n * 2,
     difficultyDistribution |-> [easy   |-> n \div 3,
                                 medium |-> n \div 3,
                                 hard   |-> n \div 3],
     tags                   |-> tags]

Metadata(n, tags) ==
    [totalPoints            |-> n * 10,
     estimatedDuration      |-> n * 2,
     difficultyDistribution |-> [easy   |-> n \div 3,
                                 medium |-> n \div 3,
                                 hard   |-> n - (2 * (n \div 3))],
     tags                   |-> tags]

\* seed is the state of the random source, hash the str hash of the process,
\* nlp_phrases what the spaCy pipeline finds in the selected questions.
create_quiz(qs, quiz_id, seed, hash, nlp_phrases) ==
    LET selected_questions == sample(qs, Min(15, Len(qs)), seed)
        n              == Len(selected_questions)
        all_tags       == Concat([i \in 1..n |-> TagsOf(selected_questions[i])])
        major_category == determine_major_category(
                              all_tags,
                              Join([i \in 1..n |-> selected_questions[i].question], " "))
        tags           == QuizTags(major_category, all_tags, hash)
        text           == generate_title_and_description(n, nlp_phrases, major_category, tags)
    IN  [id          |-> "quiz_" \o ToStr(quiz_id),
         title       |-> text.title,
         description |-> text.description,
         questions   |-> [i \in 1..n |-> QuizItem(selected_questions[i], i)],
         settings    |-> Settings,
         metadata    |-> Metadata(n, tags)]

\* The str hash is observed when a set with two or more tags is listed.
ObservesHash(qs) == Cardinality(UNION {Range(TagsOf(qs[i])) : i \in 1..Len(qs)}) > 1

\* The hash seeds a call of create_quiz on qs can meet, and the seed after it.
HashSeeds(qs) == IF ObservesHash(qs) THEN Seeds(hashseed) ELSE {0}

HashSeedAfter(qs, hash) == IF ObservesHash(qs) THEN Some(hash) ELSE hashseed

----------------------------------------------------------------------------
(* Values of the variables a function does not use. *)

IdleParse ==
    /\ lines = <<>>
    /\ idx = 1
    /\ questions = <<>>
    /\ current_question = None
    /\ valid_questions = <<>>

IdleCat ==
    /\ cat_tags = <<>>
    /\ cat_question = ""
    /\ cat_result = None

IdlePhrases ==
    /\ key_phrases = <<>>
    /\ common_phrases = <<>>

IdleQuiz ==
    /\ quiz_input = <<>>
    /\ quiz = None

IdleMain ==
    /\ files = <<>>
    /\ file_idx = 1
    /\ all_questions = <<>>
    /\ window = 0
    /\ outputs = <<>>

IdleSplit ==
    /\ src = <<>>
    /\ src_idx = 1
    /\ current_file = None
    /\ current_table = None
    /\ output_dir = <<>>

----------------------------------------------------------------------------
(* parse_trivia_file, line by line, followed by create_quiz on its result *)

\* The stripped line the loop is looking at.
Line == Strip(lines[idx])

InLoop == pc = "parse" /\ idx <= Len(lines)

ParseInitOver(contents) ==
    /\ pc = "parse"
    /\ lines \in contents
    /\ idx = 1
    /\ questions = <<>>
    /\ current_question = None
    /\ valid_questions = <<>>
    /\ IdleCat /\ IdlePhrases /\ IdleMain /\ IdleSplit
    /\ IdleQuiz
    /\ rng = None
    /\ hashseed = None

ParseInit == ParseInitOver(Files)

\* One iteration of the loop, on the line at idx.
FeedLine ==
    /\ InLoop
    /\ LET st == Feed([questions |-> questions, current_question |-> current_question],
                      lines[idx])
       IN  /\ questions' = st.questions
           /\ current_question' = st.current_question
    /\ idx' = idx + 1
    /\ UNCHANGED <<pc, lines, valid_questions>>
    /\ UNCHANGED <<rng, hashseed, catVars, phraseVars, quizVars, mainVars, splitVars>>

\* if not line: continue
SkipBlank ==
    /\ InLoop
    /\ Line = ""
    /\ FeedLine

\* if line.startswith('#Q'):
StartQuestion ==
    /\ InLoop
    /\ Line # ""
    /\ StartsWith(Line, "#Q")
    /\ FeedLine

\* elif line.startswith('^') and current_question:
SetCorrectText ==
    /\ InLoop
    /\ Line # ""
    /\ ~StartsWith(Line, "#Q")
    /\ StartsWith(Line, "^")
    /\ current_question # None
    /\ FeedLine

\* elif line.startswith(('A', 'B', 'C', 'D')) and current_question:
AddOption ==
    /\ InLoop
    /\ Line # ""
    /\ ~StartsWith(Line, "#Q")
    /\ ~(StartsWith(Line, "^") /\ current_question # None)
    /\ StartsWithOptionLetter(Line)
    /\ current_question # None
    /\ FeedLine

\* No branch of the if/elif chain is taken.
IgnoreLine ==
    /\ InLoop
    /\ Line # ""
    /\ ~StartsWith(Line, "#Q")
    /\ ~(StartsWith(Line, "^") /\ current_question # None)
    /\ ~(StartsWithOptionLetter(Line) /\ current_question # None)
    /\ FeedLine

\* The code after the loop: flush the last record, filter, return.
FinishParse ==
    /\ pc = "parse"
    /\ idx > Len(lines)
    /\ questions' = FlushLast(questions, current_question)
    /\ valid_questions' = ValidQuestions(FlushLast(questions, current_question))
    /\ current_question' = IF HasOptions(current_question)
                           THEN Some(LastQuestion(current_question[1]))
                           ELSE current_question
    /\ pc' = "parsed"
    /\ UNCHANGED <<lines, idx>>
    /\ UNCHANGED <<rng, hashseed, catVars, phraseVars, quizVars, mainVars, splitVars>>

ParseNext ==
    \/ SkipBlank
    \/ StartQuestion
    \/ SetCorrectText
    \/ AddOption
    \/ IgnoreLine
    \/ FinishParse

SpecParse == ParseInit /\ [][ParseNext]_vars

\* What the spaCy pipeline can contribute to the key phrases of a quiz.
NlpOutcomes ==
    { <<>>,
      <<"red planet", "red planet", "planet">>,
      <<"physics", "physics", "laws", "laws", "mars">> }

\* create_quiz(parse_trivia_file(path), 0): the parsed records carry no tags.
BuildQuiz ==
    /\ pc = "parsed"
    /\ \E seed \in Seeds(rng), hash \in HashSeeds(valid_questions), nlp_phrases \in NlpOutcomes :
           /\ quiz_input' = valid_questions
           /\ quiz' = Some(create_quiz(valid_questions, 0, seed, hash, nlp_phrases))
           /\ rng' = NextSeed(seed)
           /\ hashseed' = HashSeedAfter(valid_questions, hash)
    /\ pc' = "quizzed"
    /\ UNCHANGED <<parseVars, catVars, phraseVars, mainVars, splitVars>>

PipelineNext == ParseNext \/ BuildQuiz

\* Number of lines after the #Q line of the files the pipeline reads.
MaxRecordLines == 4

PipelineFiles == {<<"#Q q">> \o t : t \in SeqsUpTo(LinePool, MaxRecordLines)}

PipelineInit == ParseInitOver(PipelineFiles)

SpecPipeline == PipelineInit /\ [][PipelineNext]_vars

----------------------------------------------------------------------------
(* The input file, read as the format describes it. *)

\* The positions of the lines that open a record.
QLines == {k \in 1..Len(lines) : StartsWith(Strip(lines[k]), "#Q")}

LastQLine == CHOOSE k \in QLines : \A m \in QLines : m <= k

\* The last line of the record opened at line k.
SegmentEnd(k) ==
    IF \E m \in QLines : m > k
    THEN (CHOOSE m \in QLines : m > k /\ \A o \in QLines : o > k => m <= o) - 1
    ELSE Len(lines)

IsOptionLine(l) == StartsWithOptionLetter(Strip(l))

IsAnswerLine(l) == StartsWith(Strip(l), "^")

LineText(l) == Strip(Drop(Strip(l), 2))

\* The positions of the option lines of the record opened at line k.
OptionLines(k) == {m \in (k + 1)..SegmentEnd(k) : IsOptionLine(lines[m])}

OptionTexts(k) == {LineText(lines[m]) : m \in OptionLines(k)}

\* The correct-answer texts the record opened at line k declares.
DeclaredTexts(k) ==
    {LineText(lines[m]) : m \in {o \in (k + 1)..SegmentEnd(k) : IsAnswerLine(lines[o])}}

\* The record opened at line k has an option, and none of its options has a
\* text the record declares as correct.
Unmatched(k) == OptionLines(k) # {} /\ OptionTexts(k) \cap DeclaredTexts(k) = {}

\* The records that have an option: each is flushed to questions, in order.
Flushed == {k \in QLines : OptionLines(k) # {}}

FlushIndex(k) == Cardinality({m \in Flushed : m <= k})

----------------------------------------------------------------------------
(* Claims about parse_trivia_file *)

\* C1: every record parse_trivia_file returns has a non-empty options list
\* and a correctAnswer that is the id of one of its own options.
C1_CorrectAnswerIsOwnOption ==
    pc = "parsed" =>
        \A i \in 1..Len(valid_questions) :
            LET r == valid_questions[i]
            IN  /\ r.options # <<>>
                /\ r.correctAnswer # None
                /\ \E o \in 1..Len(r.options) : r.options[o].id = r.correctAnswer[1]

\* C1 witness: two records are returned, one of them with its second option
\* as the correct answer.
C1_Witness ==
    /\ pc = "parsed"
    /\ Len(valid_questions) >= 2
    /\ \E i \in 1..Len(valid_questions) : valid_questions[i].correctAnswer = Some("1")

\* C2: a record with an option and no option matching a declared correct
\* text is absent from the result when another #Q line follows it, and is the
\* last returned record, with correctAnswer "0", when it is the last record.
C2_UnmatchedDroppedUnlessLast ==
    pc = "parsed" =>
        /\ Len(questions) = Cardinality(Flushed)
        /\ \A k \in QLines :
               Unmatched(k) =>
                   LET r == questions[FlushIndex(k)]
                   IN  /\ Len(r.options) = Cardinality(OptionLines(k))
                       /\ IF k # LastQLine
                          THEN /\ r \notin Range(valid_questions)
                               /\ Len(valid_questions) < Len(questions)
                          ELSE /\ valid_questions # <<>>
                               /\ valid_questions[Len(valid_questions)] = r
                               /\ r.correctAnswer = Some("0")

\* C2 witness: a file whose last record and an earlier record both have an
\* option and a declared correct text that no option matches.
C2_Witness ==
    /\ pc = "parsed"
    /\ \E k \in QLines :
           k # LastQLine /\ Unmatched(k) /\ DeclaredTexts(k) # {}
    /\ Unmatched(LastQLine) /\ DeclaredTexts(LastQLine) # {}

\* The line at position m is blank, or starts with no marker, or is a ^ line
\* or an option line met while no record is active.
IsIgnored(m) ==
    LET l == Strip(lines[m])
    IN  \/ l = ""
        \/ /\ ~StartsWith(l, "#Q")
           /\ ~StartsWith(l, "^")
           /\ ~StartsWithOptionLetter(l)
        \/ /\ \A k \in QLines : k > m
           /\ StartsWith(l, "^") \/ StartsWithOptionLetter(l)

\* C13: a step of the loop over a blank line, a line that starts with none of
\* #Q, ^, A, B, C, D, or a ^ line or option line met before the first #Q line
\* leaves the active record and the completed records as they are.
C13_IgnoredLinesChangeNothing ==
    [][(InLoop /\ idx' = idx + 1 /\ IsIgnored(idx))
          => (current_question' = current_question /\ questions' = questions)]_vars

\* C13 witness: a ^ line and an option line before the first #Q line, then a
\* blank line and a line with no marker inside the record, all passed by the
\* loop, with no completed record and an active record without options.
C13_Witness ==
    /\ pc = "parse"
    /\ idx = 6
    /\ SubSeq(lines, 1, 5) = <<"^ x", "A x", "#Q q", " ", "zz">>
    /\ questions = <<>>
    /\ current_question = Some(NewQuestion("#Q q"))

\* C8: every record parse_trivia_file returns has at most 4 options.
C8_AtMostFourOptions ==
    pc = "parsed" =>
        \A i \in 1..Len(valid_questions) : Len(valid_questions[i].options) <= 4

----------------------------------------------------------------------------
(* The matching of options against the ^ text, on files with empty texts *)

\* Largest number of lines of a file.
MaxMatchLines == 5

\* The lines of a file: a ^ line with a text and one without, an option that
\* has the text, one that has another text and one with no text.
MatchLinePool == {"#Q q", "^ x", "^", "A x", "B y", "A", " "}

MatchFiles == SeqsUpTo(MatchLinePool, MaxMatchLines)

MatchInit == ParseInitOver(MatchFiles)

SpecMatch == MatchInit /\ [][ParseNext]_vars

\* The #Q line of the active record: the last one the loop has passed.
ActiveQLine == CHOOSE k \in QLines : k < idx /\ \A m \in QLines : m < idx => m <= k

\* The text of the last ^ line between lines k and m, or None.
MostRecentAnswer(k, m) ==
    LET answers == {a \in (k + 1)..(m - 1) : IsAnswerLine(lines[a])}
    IN  IF answers = {} THEN None
        ELSE Some(LineText(lines[CHOOSE a \in answers : \A b \in answers : b <= a]))

\* The option at line m of the record opened at line k follows a ^ line, and
\* the most recent one has a non-empty text, which is the option's text.
Matching(k, m) ==
    LET answer == MostRecentAnswer(k, m)
    IN  answer # None /\ answer[1] # "" /\ answer[1] = LineText(lines[m])

\* The id of the option at line m of the record opened at line k.
OptionId(k, m) ==
    ToStr(Cardinality({o \in (k + 1)..(m - 1) : IsOptionLine(lines[o]) /\ ~IsAnswerLine(lines[o])}))

\* The id of the last matching option the loop has passed, or None.
ExpectedAnswer(k) ==
    LET matches == {m \in (k + 1)..(idx - 1) : IsOptionLine(lines[m]) /\ Matching(k, m)}
    IN  IF matches = {} THEN None
        ELSE Some(OptionId(k, CHOOSE m \in matches : \A o \in matches : o <= m))

\* C15: while the loop runs, the correctAnswer of the active record is the id
\* of the last option appended after a ^ line whose non-empty text, the most
\* recent one at that moment, is the option's text; it is None when there is
\* no such option, so an option appended before the ^ line is not selected.
C15_LastMatchAfterAnswerLine ==
    (pc = "parse" /\ current_question # None)
        => current_question[1].correctAnswer = ExpectedAnswer(ActiveQLine)

\* C15 witness: an option with the text before the ^ line and two after it;
\* the correct answer is the third option.
C15_Witness ==
    /\ pc = "parse"
    /\ idx = 6
    /\ lines = <<"#Q q", "A x", "^ x", "A x", "A x">>
    /\ current_question # None
    /\ current_question[1].correctAnswer = Some("2")

\* C15 witness of the empty text: an option with no text after a ^ line with
\* no text is not the correct answer.
C15_EmptyTextReached ==
    /\ pc = "parse"
    /\ idx = 4
    /\ SubSeq(lines, 1, 3) = <<"#Q q", "^", "A">>
    /\ current_question[1].options = <<[id |-> "0", text |-> ""]>>
    /\ current_question[1].correctAnswer = None

----------------------------------------------------------------------------
(* Claims about quizzes built from parsed records *)

\* The text of the option of item whose id is the item's correctAnswer.
CorrectOptionText(item) ==
    LET o == CHOOSE o \in 1..Len(item.options) : item.options[o].id = item.correctAnswer[1]
    IN  item.options[o].text

\* C3: the explanation of every item of a quiz built from parsed records is
\* "The correct answer is: " followed by the text of the option whose id is
\* the item's correctAnswer.
C3_ExplanationNamesCorrectOption ==
    pc = "quizzed" =>
        \A i \in 1..Len(quiz[1].questions) :
            LET item == quiz[1].questions[i]
            IN  item.explanation = "The correct answer is: " \o CorrectOptionText(item)

----------------------------------------------------------------------------
(* determine_major_category on its own *)

\* Longest tag list the classifier is given.
MaxTags == 3

TagPool == {"physics", "biology", "video-games", "World", "historical", "zebra"}

QuestionPool == {"", "Which ancient cities?", "General knowledge and animal facts"}

ClassifyInit ==
    /\ pc = "classify"
    /\ cat_tags \in SeqsUpTo(TagPool, MaxTags)
    /\ cat_question \in QuestionPool
    /\ cat_result = None
    /\ IdleParse /\ IdlePhrases /\ IdleQuiz /\ IdleMain /\ IdleSplit
    /\ rng = None
    /\ hashseed = None

Classify ==
    /\ pc = "classify"
    /\ cat_result' = Some(determine_major_category(cat_tags, cat_question))
    /\ pc' = "classified"
    /\ UNCHANGED <<cat_tags, cat_question>>
    /\ UNCHANGED <<rng, hashseed, parseVars, phraseVars, quizVars, mainVars, splitVars>>

ClassifyNext == Classify

SpecClassify == ClassifyInit /\ [][ClassifyNext]_vars

\* The keyword-match score of category c for the classifier's arguments.
ScoreOf(c) == KeywordMatches(c, ClassifiedText(cat_tags, cat_question))

Categories == 1..Len(MAJOR_CATEGORIES)

\* C4: determine_major_category returns the category with the highest score,
\* the first such category in table order when several share it, and
\* "Knowledge" when every category scores 0.
C4_HighestScoreFirstInOrder ==
    pc = "classified" =>
        IF \A c \in Categories : ScoreOf(c) = 0
        THEN cat_result = Some("Knowledge")
        ELSE \E w \in Categories :
                 /\ cat_result = Some(MAJOR_CATEGORIES[w].name)
                 /\ \A c \in Categories : ScoreOf(c) <= ScoreOf(w)
                 /\ \A c \in 1..(w - 1) : ScoreOf(c) < ScoreOf(w)

\* C4 witness: two categories share the highest score, 2, and the one that
\* comes first in the table is returned.
C4_Witness ==
    /\ pc = "classified"
    /\ \E w \in Categories, c \in Categories :
           /\ w < c
           /\ ScoreOf(w) = 2 /\ ScoreOf(c) = 2
           /\ \A o \in Categories : ScoreOf(o) <= 2
           /\ cat_result = Some(MAJOR_CATEGORIES[w].name)

\* A state where every category scores 0.
C4_AllZeroReached ==
    pc = "classified" /\ \A c \in Categories : ScoreOf(c) = 0

----------------------------------------------------------------------------
(* The counting part of extract_key_phrases on its own *)

\* Number of distinct phrases in the merged list.
MaxPhrases == 6

\* Largest number of occurrences of one phrase in the merged list.
MaxCount == 2

\* The numbers of words a phrase of the merged list has.
WordCounts == {1, 3, 4}

\* The phrase seen in place p, made of w words.
PhraseText(p, w) == Join(<<"p" \o ToStr(p)>> \o [i \in 1..(w - 1) |-> "w"], " ")

\* One choice of a number of words and of a count for each of n phrases.
Shapes(n) == [1..n -> [words : WordCounts, count : 1..MaxCount]]

\* The phrases of shape that occur at least c times, in order.
Occurring(shape, c) ==
    LET places == SelectSeq([p \in 1..Len(shape) |-> p], LAMBDA p : shape[p].count >= c)
    IN  [i \in 1..Len(places) |-> PhraseText(places[i], shape[places[i]].words)]

\* A merged list with the phrases of shape: first every phrase once, in
\* order, then the further occurrences.
MergedList(shape) == Concat([c \in 1..MaxCount |-> Occurring(shape, c)])

PhrasesInit ==
    /\ pc = "extract"
    /\ key_phrases \in {MergedList(shape) : shape \in UNION {Shapes(n) : n \in 0..MaxPhrases}}
    /\ common_phrases = <<>>
    /\ IdleParse /\ IdleCat /\ IdleQuiz /\ IdleMain /\ IdleSplit
    /\ rng = None
    /\ hashseed = None

\* Lines 141-145 of extract_key_phrases.
ExtractCommon ==
    /\ pc = "extract"
    /\ common_phrases' = CommonPhrases(key_phrases)
    /\ pc' = "extracted"
    /\ UNCHANGED key_phrases
    /\ UNCHANGED <<rng, hashseed, parseVars, catVars, quizVars, mainVars, splitVars>>

PhrasesNext == ExtractCommon

SpecPhrases == PhrasesInit /\ [][PhrasesNext]_vars

\* The number of occurrences of phrase in the merged list.
CountOf(phrase) == Cardinality({i \in 1..Len(key_phrases) : key_phrases[i] = phrase})

FirstSeen(phrase) ==
    CHOOSE i \in 1..Len(key_phrases) :
        key_phrases[i] = phrase /\ \A j \in 1..(i - 1) : key_phrases[j] # phrase

\* The phrases with count > 1 and at most 3 words.
Qualifying == {ph \in Range(key_phrases) : CountOf(ph) > 1 /\ Len(Split(ph)) <= 3}

\* ph comes before other: a larger count, or the same count and seen first.
RanksBefore(ph, other) ==
    \/ CountOf(ph) > CountOf(other)
    \/ CountOf(ph) = CountOf(other) /\ FirstSeen(ph) < FirstSeen(other)

RankOf(ph) == 1 + Cardinality({other \in Qualifying : RanksBefore(other, ph)})

\* The first min(5, k) of the k qualifying phrases, in rank order.
FirstFiveQualifying ==
    [i \in 1..Min(5, Cardinality(Qualifying)) |-> CHOOSE ph \in Qualifying : RankOf(ph) = i]

\* C6: extract_key_phrases returns the first min(5, k) phrases, by descending
\* count and then first-seen position, of the k phrases with count > 1 and at
\* most 3 words; other phrases do not reduce the number returned.
C6_FirstFiveQualifying ==
    pc = "extracted" => common_phrases = FirstFiveQualifying

\* What does hold: the result is the qualifying part of the 5 most common
\* phrases of the merged list, in rank order.
C6_QualifyingAmongFiveMostCommon ==
    pc = "extracted" =>
        /\ Range(common_phrases) \subseteq Qualifying
        /\ Len(common_phrases) <= 5
        /\ \A i \in 1..Len(common_phrases), j \in 1..Len(common_phrases) :
               i < j => RanksBefore(common_phrases[i], common_phrases[j])
        /\ Cardinality(Range(key_phrases)) <= 5 => common_phrases = FirstFiveQualifying

----------------------------------------------------------------------------
(* create_quiz on its own *)

\* Largest group of records create_quiz is given.
MaxQuestions == 15

\* The names of the files the records of a group come from.
FileNames == {"science", "History", "general"}

\* What the tagger finds in the questions of a group: no noun, the same noun
\* in every question, a different noun in each, or "physics" in the first
\* question and two place nouns in the others.
NounKinds == {"none", "same", "own", "places"}

NounsOf(kind, i) ==
    IF kind = "none" THEN <<>>
    ELSE IF kind = "same" THEN <<"physics">>
    ELSE IF kind = "places"
         THEN IF i = 1 THEN <<"physics">> ELSE <<"countries", "cities">>
    ELSE <<"noun" \o ToStr(i)>>

\* Record i of a group, as main hands it to create_quiz.
TaggedRecord(i, file_name, kind) ==
    [question      |-> "q" \o ToStr(i),
     options       |-> <<[id |-> "0", text |-> "x"], [id |-> "1", text |-> "y"]>>,
     correctAnswer |-> Some("1"),
     correct_text  |-> Some("y"),
     tags          |-> determine_tags(file_name, NounsOf(kind, i), 0)]

Group(n, file_name, kind) == [i \in 1..n |-> TaggedRecord(i, file_name, kind)]

QuizInit ==
    /\ pc = "create_quiz"
    /\ quiz_input \in {Group(n, f, k) : n \in 0..MaxQuestions, f \in FileNames, k \in NounKinds}
    /\ quiz = None
    /\ IdleParse /\ IdleCat /\ IdlePhrases /\ IdleMain /\ IdleSplit
    /\ rng = None
    /\ hashseed = None

CreateQuiz ==
    /\ pc = "create_quiz"
    /\ \E seed \in Seeds(rng), hash \in HashSeeds(quiz_input), nlp_phrases \in NlpOutcomes :
           /\ quiz' = Some(create_quiz(quiz_input, 0, seed, hash, nlp_phrases))
           /\ rng' = NextSeed(seed)
           /\ hashseed' = HashSeedAfter(quiz_input, hash)
    /\ pc' = "quizzed"
    /\ UNCHANGED quiz_input
    /\ UNCHANGED <<parseVars, catVars, phraseVars, mainVars, splitVars>>

QuizNext == CreateQuiz

SpecQuiz == QuizInit /\ [][QuizNext]_vars

\* C5: metadata.tags is the major category followed by at most 5 aggregate
\* tags that are pairwise distinct and differ from the major category, so no
\* entry occurs twice.
C5_TagsWithoutDuplicates ==
    pc = "quizzed" =>
        LET tags == quiz[1].metadata.tags
        IN  /\ Len(tags) <= 6
            /\ \A i \in 1..Len(tags), j \in 1..Len(tags) : i # j => tags[i] # tags[j]

\* What does hold: the entries after the first are at most 5 and pairwise
\* distinct, and each is a tag of a selected question.
C5_AggregateTagsDistinct ==
    pc = "quizzed" =>
        LET tags == quiz[1].metadata.tags
        IN  /\ Len(tags) >= 1 /\ Len(tags) <= 6
            /\ \A i \in 2..Len(tags), j \in 2..Len(tags) : i # j => tags[i] # tags[j]
            /\ \A i \in 2..Len(tags) :
                   \E q \in 1..Len(quiz_input) : tags[i] \in Range(quiz_input[q].tags)

\* C10: for a quiz of n questions, easy = medium = n // 3, hard is the rest,
\* the three add up to n, totalPoints is 10 * n, and 14 questions give 4, 4, 6.
C10_DifficultyAndPoints ==
    pc = "quizzed" =>
        LET n == Len(quiz[1].questions)
            d == quiz[1].metadata.difficultyDistribution
        IN  /\ n = Min(15, Len(quiz_input))
            /\ 3 * d.easy <= n /\ n < 3 * d.easy + 3
            /\ d.medium = d.easy
            /\ d.hard = n - 2 * d.easy
            /\ d.easy + d.medium + d.hard = n
            /\ quiz[1].metadata.totalPoints = 10 * n
            /\ n = 14 => d = [easy |-> 4, medium |-> 4, hard |-> 6]

\* C10 witness: a quiz of 14 questions with distribution 4, 4, 6.
C10_Witness ==
    /\ pc = "quizzed"
    /\ Len(quiz[1].questions) = 14
    /\ quiz[1].metadata.difficultyDistribution = [easy |-> 4, medium |-> 4, hard |-> 6]
    /\ quiz[1].metadata.totalPoints = 140

\* C11: a quiz built from 15 questions of which one is tagged "physics" has
\* the category "Science", and its title begins with "Science Quiz:".
C11_PhysicsGivesScienceTitle ==
    (/\ pc = "quizzed"
     /\ Len(quiz[1].questions) = 15
     /\ \E i \in 1..Len(quiz_input) : "physics" \in Range(TagsOf(quiz_input[i])))
        => /\ quiz[1].metadata.tags[1] = "Science"
           /\ StartsWith(quiz[1].title, "Science Quiz:")

----------------------------------------------------------------------------
(* main *)

\* Largest number of records in one file of the categories directory.
MaxRecords == 120

\* The lines of record k of the file called name.
RecordLines(name, k) == <<"#Q " \o name \o "q" \o ToStr(k), "^ x", "B y", "A x">>

\* The lines of a file called name that holds n records.
FileLines(name, n) ==
    [l \in 1..(4 * n) |-> RecordLines(name, ((l - 1) \div 4) + 1)[((l - 1) % 4) + 1]]

\* A directory entry: a readable file of n records, an unreadable file, or a
\* directory.
FileEntry(n) == [kind |-> "file", records |-> n]

Unreadable == [kind |-> "unreadable", records |-> 0]

Directory == [kind |-> "dir", records |-> 0]

SmallEntries == {FileEntry(0), FileEntry(16), Unreadable, Directory}

\* The listings of the categories directory: one file of any size, or two
\* small entries of any kind, or nothing.
Listings ==
    {<<>>} \cup {<<FileEntry(n)>> : n \in 0..MaxRecords}
           \cup {<<e, f>> : e \in SmallEntries, f \in SmallEntries}

EntryName(i) == "f" \o ToStr(i)

\* What the tagger finds in the questions of one file.
FileNounKinds == {"none", "same"}

\* What the spaCy pipeline can contribute to the quizzes of one output file.
FileNlpOutcomes == {<<>>, <<"physics", "physics", "laws", "laws", "mars">>}

\* q['tags'] = determine_tags(q['question'], filename), for every q.
WithTags(qs, file_name, kind, hash) ==
    [i \in 1..Len(qs) |->
        [question      |-> qs[i].question,
         options       |-> qs[i].options,
         correctAnswer |-> qs[i].correctAnswer,
         correct_text  |-> qs[i].correct_text,
         tags          |-> determine_tags(file_name, NounsOf(kind, i), hash)]]

MainInit ==
    /\ pc = "main"
    /\ files \in Listings
    /\ file_idx = 1
    /\ all_questions = <<>>
    /\ window = 0
    /\ outputs = <<>>
    /\ IdleParse /\ IdleCat /\ IdlePhrases /\ IdleQuiz /\ IdleSplit
    /\ rng = None
    /\ hashseed = None

\* Faulty variant: the second loop starts once the first entry is read.
ReadingDone_AfterFirst == file_idx > 1

\* The loop over os.listdir is over.
ReadingDone == file_idx > Len(files)

InReadLoop == pc = "main" /\ file_idx <= Len(files)

\* if os.path.isfile(file_path) is false
SkipEntry ==
    /\ InReadLoop
    /\ files[file_idx].kind = "dir"
    /\ file_idx' = file_idx + 1
    /\ UNCHANGED <<pc, rng, hashseed, files, all_questions, window, outputs>>
    /\ UNCHANGED <<parseVars, catVars, phraseVars, quizVars, splitVars>>

\* One file is parsed, its records tagged and added to all_questions.
ReadFile ==
    /\ InReadLoop
    /\ files[file_idx].kind = "file"
    /\ \E kind \in FileNounKinds :
       \E hash \in IF kind = "none" THEN {0} ELSE Seeds(hashseed) :
           /\ all_questions' = all_questions \o
                  WithTags(parse_trivia_file(FileLines(EntryName(file_idx),
                                                       files[file_idx].records)),
                           EntryName(file_idx), kind, hash)
           /\ hashseed' = IF kind = "none" THEN hashseed ELSE Some(hash)
    /\ file_idx' = file_idx + 1
    /\ UNCHANGED <<pc, rng, files, window, outputs>>
    /\ UNCHANGED <<parseVars, catVars, phraseVars, quizVars, splitVars>>

\* open() raises: the exception ends main.
ReadFails ==
    /\ InReadLoop
    /\ files[file_idx].kind = "unreadable"
    /\ pc' = "aborted"
    /\ UNCHANGED <<rng, hashseed, files, file_idx, all_questions, window, outputs>>
    /\ UNCHANGED <<parseVars, catVars, phraseVars, quizVars, splitVars>>


\* xs[a:b]
Slice(xs, a, b) == IF a >= Len(xs) THEN <<>> ELSE SubSeq(xs, a + 1, Min(b, Len(xs)))

\* Faulty variant: the window after the last full one is not visited.
NumQuizFiles_FullWindowsOnly == Len(all_questions) \div 100

\* len(all_questions) // questions_per_file + 1
NumQuizFiles == Len(all_questions) \div 100 + 1

\* all_questions[start_idx:end_idx] for loop variable i
FileQuestions(i) == Slice(all_questions, i * 100, i * 100 + 100)

\* Faulty variant: a group runs one record into the next group.
GroupOf_Overlapping(file_questions, j) == Slice(file_questions, j * 15, (j + 1) * 15 + 1)

\* file_questions[j*15:(j+1)*15]
GroupOf(file_questions, j) == Slice(file_questions, j * 15, (j + 1) * 15)

RECURSIVE SeedAt(_, _)
\* The state of the random source j calls after it was seed.
SeedAt(seed, j) == IF j = 0 THEN seed ELSE SeedAt(NextSeed(seed)[1], j - 1)

\* The quizzes list of one file: one quiz for each full group of 15.
QuizzesOf(file_questions, seed, hash, nlp_phrases) ==
    [q \in 1..(Len(file_questions) \div 15) |->
        create_quiz(GroupOf(file_questions, q - 1), q - 1,
                    SeedAt(seed, q - 1), hash, nlp_phrases)]

\* The file json.dump writes for loop variable i.
OutputFile(i, quizzes) ==
    [name    |-> "quiz_data_" \o ToStr(i + 1) \o ".json",
     quizzes |-> quizzes]

InWriteLoop == pc = "main" /\ ReadingDone /\ window < NumQuizFiles

\* if not file_questions: continue
SkipWindow ==
    /\ InWriteLoop
    /\ FileQuestions(window) = <<>>
    /\ window' = window + 1
    /\ UNCHANGED <<pc, rng, hashseed, files, file_idx, all_questions, outputs>>
    /\ UNCHANGED <<parseVars, catVars, phraseVars, quizVars, splitVars>>

\* One iteration of the second loop that writes a file.  The spaCy pipeline
\* contributes the same phrases to every quiz of the file.
WriteWindow ==
    /\ InWriteLoop
    /\ FileQuestions(window) # <<>>
    /\ LET file_questions == FileQuestions(window)
           calls          == Len(file_questions) \div 15
       IN  \E seed \in IF calls = 0 THEN {0} ELSE Seeds(rng) :
           \E hash \in IF calls = 0 THEN {0} ELSE HashSeeds(file_questions) :
           \E nlp_phrases \in IF calls = 0 THEN {<<>>} ELSE FileNlpOutcomes :
               /\ outputs' = Append(outputs,
                      OutputFile(window, QuizzesOf(file_questions, seed, hash, nlp_phrases)))
               /\ rng' = IF calls = 0 THEN rng ELSE Some(SeedAt(seed, calls))
               /\ hashseed' = IF calls = 0 THEN hashseed
                              ELSE HashSeedAfter(file_questions, hash)
    /\ window' = window + 1
    /\ UNCHANGED <<pc, files, file_idx, all_questions>>
    /\ UNCHANGED <<parseVars, catVars, phraseVars, quizVars, splitVars>>

\* The second loop is over: main returns.
MainReturns ==
    /\ pc = "main"
    /\ ReadingDone
    /\ window >= NumQuizFiles
    /\ pc' = "done"
    /\ UNCHANGED <<rng, hashseed, files, file_idx, all_questions, window, outputs>>
    /\ UNCHANGED <<parseVars, catVars, phraseVars, quizVars, splitVars>>

MainNext ==
    \/ SkipEntry
    \/ ReadFile
    \/ ReadFails
    \/ SkipWindow
    \/ WriteWindow
    \/ MainReturns

SpecMain == MainInit /\ [][MainNext]_vars

----------------------------------------------------------------------------
(* Claims about main *)

\* The records of the window that output file o is written from.
WindowRecords(o) ==
    [p \in 1..Min(100, Len(all_questions) - (o - 1) * 100) |->
        all_questions[(o - 1) * 100 + p]]

\* The question texts of the items of quiz g of output file o.
ItemTexts(o, g) ==
    {outputs[o].quizzes[g].questions[i].question :
        i \in 1..Len(outputs[o].quizzes[g].questions)}

\* Every item of every quiz written so far: file, quiz, position.
WrittenItems ==
    {<<o, g, i>> \in (1..Len(outputs)) \X (1..6) \X (1..15) :
        g <= Len(outputs[o].quizzes) /\ i <= Len(outputs[o].quizzes[g].questions)}

TextOfItem(item) == outputs[item[1]].quizzes[item[2]].questions[item[3]].question

\* The records of the model's files differ in their question text.
DistinctRecords ==
    \A p \in 1..Len(all_questions), r \in 1..Len(all_questions) :
        p # r => all_questions[p].question # all_questions[r].question

\* C7: the quizzes of each output file are permutations of the consecutive
\* full groups of 15 of its window of 100, no record is in two quizzes, and
\* the records of a window's trailing partial group are in no quiz.
C7_QuizzesAreFullGroups ==
    /\ DistinctRecords
    /\ \A o \in 1..Len(outputs) :
           LET recs == WindowRecords(o)
           IN  /\ Len(outputs[o].quizzes) = Len(recs) \div 15
               /\ \A g \in 1..Len(outputs[o].quizzes) :
                      /\ Len(outputs[o].quizzes[g].questions) = 15
                      /\ ItemTexts(o, g) =
                             {recs[(g - 1) * 15 + i].question : i \in 1..15}
               /\ \A p \in (15 * (Len(recs) \div 15) + 1)..Len(recs) :
                      \A item \in WrittenItems : TextOfItem(item) # recs[p].question
    /\ \A item \in WrittenItems, other \in WrittenItems :
           item # other => TextOfItem(item) # TextOfItem(other)

\* C7 witness: 120 records give a file of 6 quizzes and a file of 1 quiz, the
\* first quiz in another order than its group.
C7_Witness ==
    /\ pc = "done"
    /\ Len(all_questions) = 120
    /\ Len(outputs) = 2
    /\ Len(outputs[1].quizzes) = 6
    /\ Len(outputs[2].quizzes) = 1
    /\ outputs[1].quizzes[1].questions[1].question # all_questions[1].question

\* C9: no output file is written before every directory entry has been
\* processed, and a run that a read failure ends has written no file.
C9_NoOutputBeforeAllParsed ==
    /\ outputs # <<>> => file_idx > Len(files)
    /\ pc = "aborted" => outputs = <<>>

\* C9 witness: the second file cannot be read after 16 records, enough for a
\* quiz, were collected from the first; nothing has been written.
C9_Witness ==
    /\ pc = "aborted"
    /\ file_idx = 2
    /\ Len(all_questions) >= 15
    /\ outputs = <<>>

\* ceil(N / 100) for the N records of the master list.
WindowCount == (Len(all_questions) + 99) \div 100

\* C14: the documents written are numbered 1, 2, ... in the order they are
\* written; when main returns there are ceil(N/100) of them for N records,
\* none for N = 0 and no extra one for a multiple of 100, and the document of
\* a final window of fewer than 15 records has an empty quizzes list.
C14_OneDocumentPerWindow ==
    /\ \A o \in 1..Len(outputs) :
           outputs[o].name = "quiz_data_" \o ToStr(o) \o ".json"
    /\ Len(outputs) <= WindowCount
    /\ pc = "done" =>
           /\ Len(outputs) = WindowCount
           /\ Len(all_questions) % 100 \in 1..14 => outputs[WindowCount].quizzes = <<>>

\* C14 witness: 110 records give two documents, the second one, of a window
\* of 10 records, with an empty quizzes list.
C14_Witness ==
    /\ pc = "done"
    /\ Len(all_questions) = 110
    /\ Len(outputs) = 2
    /\ outputs[2] = [name |-> "quiz_data_2.json", quizzes |-> <<>>]

\* C14 witness of the multiple of 100: 100 records give one document.
C14_MultipleReached ==
    /\ pc = "done"
    /\ Len(all_questions) = 100
    /\ window = 2
    /\ Len(outputs) = 1

\* C14 witness of the empty master list: main returns with no document.
C14_NoneReached ==
    /\ pc = "done"
    /\ files # <<>>
    /\ all_questions = <<>>
    /\ window = 1
    /\ outputs = <<>>

----------------------------------------------------------------------------
(* split_dump of apps/api/scripts/split_pg_dump.py *)

\* The text SECTION_REGEX requires at the start of a marker line.
SECTION_PREFIX == "-- Data for Name: "

RECURSIVE FirstSemicolon(_, _)
\* Position of the first ";" of s at or after position i, or 0 if there is none.
FirstSemicolon(s, i) ==
    IF i > Len(s) THEN 0
    ELSE IF CharAt(s, i) = ";" THEN i
    ELSE FirstSemicolon(s, i + 1)

\* SECTION_REGEX.match(line): the group "table" of the match, or None.
SECTION_REGEX(line) ==
    IF ~StartsWith(line, SECTION_PREFIX) THEN None
    ELSE LET from == Len(SECTION_PREFIX) + 1
             semi == FirstSemicolon(line, from)
         IN  IF semi > from THEN Some(SubSeq(line, from, semi - 1)) ELSE None

RECURSIVE Replace(_, _, _)
\* s.replace(old, new) for a one-character old.
Replace(s, old, new) ==
    IF s = "" THEN ""
    ELSE (IF Take(s, 1) = old THEN new ELSE Take(s, 1)) \o Replace(Drop(s, 1), old, new)

\* The name of the file open_section_file opens for table_name.
SectionFileName(table_name) == Replace(Strip(table_name), " ", "_") \o ".sql"

\* The output directory after open_section_file: mode "w" leaves the file empty.
open_section_file(table_name, dir) ==
    (SectionFileName(table_name) :> <<>>) @@ dir

\* The directory after file.write(line) on the open file called name.
WriteLine(dir, name, line) == [dir EXCEPT ![name] = Append(@, line)]

\* Largest number of lines of a dump.
MaxDumpLines == 5

\* The lines a dump is made of: markers of the tables a, b, "a b" and a_b, a
\* line with the prefix and no table, and a data row.
DumpLinePool ==
    { "-- Data for Name: a; Type: TABLE DATA",
      "-- Data for Name: b; Type: TABLE DATA",
      "-- Data for Name: a b; Type: TABLE DATA",
      "-- Data for Name: a_b; Type: TABLE DATA",
      "-- Data for Name: ; Type: TABLE DATA",
      "1" }

\* The dumps read; None stands for a source path with no file.
Dumps == {None} \cup {Some(d) : d \in SeqsUpTo(DumpLinePool, MaxDumpLines)}

SplitInit ==
    /\ pc = "split_dump"
    /\ src \in Dumps
    /\ src_idx = 1
    /\ current_file = None
    /\ current_table = None
    /\ output_dir = <<>>
    /\ IdleParse /\ IdleCat /\ IdlePhrases /\ IdleQuiz /\ IdleMain
    /\ rng = None
    /\ hashseed = None

\* The loop over the lines of the source is at a line.
InSplitLoop == pc = "split_dump" /\ src # None /\ src_idx <= Len(src[1])

\* source_path.open raises FileNotFoundError.
SourceNotFound ==
    /\ pc = "split_dump"
    /\ src = None
    /\ pc' = "source_not_found"
    /\ UNCHANGED <<rng, hashseed, splitVars>>
    /\ UNCHANGED <<parseVars, catVars, phraseVars, quizVars, mainVars>>

\* A marker line: the open file is closed, the file of the table is opened
\* and the line is written to it.
SectionLine ==
    /\ InSplitLoop
    /\ SECTION_REGEX(src[1][src_idx]) # None
    /\ LET table  == SECTION_REGEX(src[1][src_idx])[1]
           name   == SectionFileName(table)
           opened == open_section_file(table, output_dir)
       IN  /\ current_table' = Some(table)
           /\ current_file' = Some(name)
           /\ output_dir' = WriteLine(opened, name, src[1][src_idx])
    /\ src_idx' = src_idx + 1
    /\ UNCHANGED <<pc, rng, hashseed, src>>
    /\ UNCHANGED <<parseVars, catVars, phraseVars, quizVars, mainVars>>

\* Any other line while a section file is open: the line is written to it.
SectionRow ==
    /\ InSplitLoop
    /\ SECTION_REGEX(src[1][src_idx]) = None
    /\ current_file # None
    /\ output_dir' = WriteLine(output_dir, current_file[1], src[1][src_idx])
    /\ src_idx' = src_idx + 1
    /\ UNCHANGED <<pc, rng, hashseed, src, current_file, current_table>>
    /\ UNCHANGED <<parseVars, catVars, phraseVars, quizVars, mainVars>>

\* Any other line before the first marker: nothing is written.
PreambleLine ==
    /\ InSplitLoop
    /\ SECTION_REGEX(src[1][src_idx]) = None
    /\ current_file = None
    /\ src_idx' = src_idx + 1
    /\ UNCHANGED <<pc, rng, hashseed, src, current_file, current_table, output_dir>>
    /\ UNCHANGED <<parseVars, catVars, phraseVars, quizVars, mainVars>>

\* End of the source: the open file is closed; an empty output directory
\* ends split_dump with SystemExit.
SplitReturns ==
    /\ pc = "split_dump"
    /\ src # None
    /\ src_idx > Len(src[1])
    /\ pc' = IF DOMAIN output_dir = {} THEN "no_sections" ELSE "split_done"
    /\ UNCHANGED <<rng, hashseed, splitVars>>
    /\ UNCHANGED <<parseVars, catVars, phraseVars, quizVars, mainVars>>

SplitNext ==
    \/ SourceNotFound
    \/ SectionLine
    \/ SectionRow
    \/ PreambleLine
    \/ SplitReturns

SpecSplit == SplitInit /\ [][SplitNext]_vars

----------------------------------------------------------------------------
(* Claims about split_dump *)

\* The positions of the marker lines of the dump.
Markers == {k \in 1..Len(src[1]) : SECTION_REGEX(src[1][k]) # None}

\* The last line of the section whose marker is at line k.
SectionEnd(k) ==
    IF \E m \in Markers : m > k
    THEN (CHOOSE m \in Markers : m > k /\ \A o \in Markers : o > k => m <= o) - 1
    ELSE Len(src[1])

\* The lines of the section whose marker is at line k.
SectionLines(k) == SubSeq(src[1], k, SectionEnd(k))

\* The file the docstring names for the section whose marker is at line k.
SectionFile(k) == SectionFileName(SECTION_REGEX(src[1][k])[1])

\* run occurs in content as consecutive lines.
ContainsRun(content, run) ==
    \E i \in 0..(Len(content) - Len(run)) : SubSeq(content, i + 1, i + Len(run)) = run

\* C12: when split_dump returns, the file of every marker line contains the
\* lines from that marker up to the next marker, also when two sections share
\* a file name, and no file begins with a line from before the first marker.
C12_EverySectionInItsFile ==
    pc = "split_done" =>
        /\ \A k \in Markers :
               /\ SectionFile(k) \in DOMAIN output_dir
               /\ ContainsRun(output_dir[SectionFile(k)], SectionLines(k))
        /\ \A f \in DOMAIN output_dir :
               /\ output_dir[f] # <<>>
               /\ SECTION_REGEX(output_dir[f][1]) # None

\* What does hold: each file holds exactly the last section that names it.
C12_LastSectionOfEachFile ==
    pc = "split_done" =>
        /\ DOMAIN output_dir = {SectionFile(k) : k \in Markers}
        /\ \A k \in Markers :
               (\A m \in Markers : SectionFile(m) = SectionFile(k) => m <= k)
                   => output_dir[SectionFile(k)] = SectionLines(k)

====
